---- MODULE Spec2Model ----
(***************************************************************************)
(* Remote Config service facade (src/remote-config/remote-config.ts):      *)
(* the RemoteConfig operations, the RemoteConfigTemplateImpl and           *)
(* VersionImpl constructors and their toJSON methods.                      *)
(*                                                                         *)
(* JavaScript values are records [t, v]: t is the value's typeof class     *)
(* ("undefined", "null", "boolean", "number", "string", "array",           *)
(* "object") and v its content.  A string's content is its sequence of     *)
(* characters, so that parsing and formatting are computed on the text.    *)
(***************************************************************************)
EXTENDS Integers, Sequences, FiniteSets, TLC

(***************************************************************************)
(* JavaScript values                                                       *)
(***************************************************************************)
Undef == [t |-> "undefined", v |-> <<>>]

Null == [t |-> "null", v |-> <<>>]

Bool(b) == [t |-> "boolean", v |-> b]

\* A finite number is the fraction num/den, den a power of ten; k is "nan"
\* for NaN.
Num(n) == [t |-> "number", v |-> [k |-> "fin", num |-> n, den |-> 1]]

Frac(n, d) == [t |-> "number", v |-> [k |-> "fin", num |-> n, den |-> d]]

NaN == [t |-> "number", v |-> [k |-> "nan", num |-> 0, den |-> 1]]

Str(chars) == [t |-> "string", v |-> chars]

Arr(elems) == [t |-> "array", v |-> elems]

\* An object is the function from its own property names to their values.
Obj(props) == [t |-> "object", v |-> props]

EmptyObj == Obj([k \in {} |-> Undef])

\* o.k : reading a property an object does not have yields undefined; so
\* does reading one off a primitive string, number or boolean.
Get(o, k) == IF o.t = "object" /\ k \in DOMAIN o.v THEN o.v[k] ELSE Undef

\* o with property k set to x
With(o, k, x) == Obj([f \in DOMAIN o.v \cup {k} |-> IF f = k THEN x ELSE o.v[f]])

\* typeof x !== 'undefined'
Present(x) == x.t # "undefined"

\* F(v) with v evaluated before the call, as JavaScript evaluates a call's
\* argument.
Apply(F(_), v) == CHOOSE y \in {F(x) : x \in {v}} : TRUE

(***************************************************************************)
(* validator.* predicates (utils/validator)                                *)
(***************************************************************************)
isNonEmptyString(x) == x.t = "string" /\ Len(x.v) > 0

isNonNullObject(x) == x.t = "object"

isArray(x) == x.t = "array"

isNumber(x) == x.t = "number"

isBoolean(x) == x.t = "boolean"

(***************************************************************************)
(* Number(x) and Number.isInteger                                          *)
(***************************************************************************)
DigitChars == {"0", "1", "2", "3", "4", "5", "6", "7", "8", "9"}

Digit(c) ==
  CASE c = "0" -> 0 [] c = "1" -> 1 [] c = "2" -> 2 [] c = "3" -> 3
    [] c = "4" -> 4 [] c = "5" -> 5 [] c = "6" -> 6 [] c = "7" -> 7
    [] c = "8" -> 8 [] c = "9" -> 9 [] OTHER -> 0

AllDigits(s) == \A i \in 1..Len(s) : s[i] \in DigitChars

\* The number the digits s[from..to] write.
RECURSIVE Field(_, _, _)
Field(s, from, to) ==
  IF to < from THEN 0 ELSE Field(s, from, to - 1) * 10 + Digit(s[to])

DigitsToNat(s) == Field(s, 1, Len(s))

RECURSIVE Pow10(_)
Pow10(n) == IF n = 0 THEN 1 ELSE 10 * Pow10(n - 1)

RECURSIVE Trim(_)
Trim(s) ==
  IF s = <<>> THEN s
  ELSE IF s[1] = " " THEN Trim(Tail(s))
  ELSE IF s[Len(s)] = " " THEN Trim(SubSeq(s, 1, Len(s) - 1))
  ELSE s

\* StringToNumber on decimal literals: surrounding blanks are dropped, the
\* empty text is 0, [sign] digits [. digits] is its value, anything else NaN.
StringToNumber(chars) ==
  LET s0 == Trim(chars)
      neg == s0 # <<>> /\ s0[1] = "-"
      s == IF s0 # <<>> /\ s0[1] \in {"-", "+"} THEN Tail(s0) ELSE s0
      dots == {i \in 1..Len(s) : s[i] = "."}
      dot == IF dots = {} THEN Len(s) + 1 ELSE CHOOSE i \in dots : \A j \in dots : i <= j
      ip == SubSeq(s, 1, dot - 1)
      fp == SubSeq(s, dot + 1, Len(s))
      sign == IF neg THEN -1 ELSE 1
  IN IF s0 = <<>> THEN Num(0).v
     ELSE IF Cardinality(dots) <= 1 /\ AllDigits(ip) /\ AllDigits(fp)
             /\ Len(ip) + Len(fp) > 0
       THEN [k |-> "fin", num |-> sign * DigitsToNat(ip \o fp), den |-> Pow10(Len(fp))]
       ELSE NaN.v

\* Number(x) for the values a versionNumber reaches line 293 with.
ToNumber(x) ==
  CASE x.t = "number" -> x.v
    [] x.t = "string" -> StringToNumber(x.v)
    [] OTHER -> NaN.v

NumberIsInteger(n) == n.k = "fin" /\ n.num % n.den = 0

(***************************************************************************)
(* Dates: new Date(text), toISOString, toUTCString and the two date-string *)
(* predicates of utils/validator.  A date is its UTC calendar fields.      *)
(***************************************************************************)
InvalidDate == [ok |-> FALSE, y |-> 0, mo |-> 0, d |-> 0, h |-> 0, mi |-> 0, s |-> 0, ms |-> 0]

IsLeap(y) == (y % 4 = 0 /\ y % 100 # 0) \/ y % 400 = 0

DaysInMonth(y, mo) ==
  CASE mo \in {4, 6, 9, 11} -> 30
    [] mo = 2 -> IF IsLeap(y) THEN 29 ELSE 28
    [] OTHER -> 31

\* A well-formed calendar date and time of day.
MakeDate(y, mo, d, h, mi, s, ms) ==
  IF mo \in 1..12 /\ d >= 1 /\ d <= DaysInMonth(y, mo) /\ h <= 23 /\ mi <= 59 /\ s <= 59
  THEN [ok |-> TRUE, y |-> y, mo |-> mo, d |-> d, h |-> h, mi |-> mi, s |-> s, ms |-> ms]
  ELSE InvalidDate

\* Days from 1970-01-01 to the civil date, and the day of the week
\* (0 = Sunday) that Date.prototype.getUTCDay returns.
DaysFromCivil(y, mo, d) ==
  LET yy == IF mo <= 2 THEN y - 1 ELSE y
      era == yy \div 400
      yoe == yy - era * 400
      mp == IF mo > 2 THEN mo - 3 ELSE mo + 9
      doy == (153 * mp + 2) \div 5 + d - 1
      doe == yoe * 365 + yoe \div 4 - yoe \div 100 + doy
  IN era * 146097 + doe - 719468

WeekDay(date) == (DaysFromCivil(date.y, date.mo, date.d) + 4) % 7

DayNames == << <<"S","u","n">>, <<"M","o","n">>, <<"T","u","e">>, <<"W","e","d">>,
               <<"T","h","u">>, <<"F","r","i">>, <<"S","a","t">> >>

MonthNames == << <<"J","a","n">>, <<"F","e","b">>, <<"M","a","r">>, <<"A","p","r">>,
                 <<"M","a","y">>, <<"J","u","n">>, <<"J","u","l">>, <<"A","u","g">>,
                 <<"S","e","p">>, <<"O","c","t">>, <<"N","o","v">>, <<"D","e","c">> >>

DigitChar(n) == <<"0", "1", "2", "3", "4", "5", "6", "7", "8", "9">>[n + 1]

\* n written with w digits, zero padded.
RECURSIVE Pad(_, _)
Pad(n, w) == IF w = 0 THEN <<>> ELSE Pad(n \div 10, w - 1) \o <<DigitChar(n % 10)>>

\* Date.prototype.toISOString: YYYY-MM-DDTHH:mm:ss.sssZ
toISOString(date) ==
  Pad(date.y, 4) \o <<"-">> \o Pad(date.mo, 2) \o <<"-">> \o Pad(date.d, 2) \o <<"T">>
  \o Pad(date.h, 2) \o <<":">> \o Pad(date.mi, 2) \o <<":">> \o Pad(date.s, 2)
  \o <<".">> \o Pad(date.ms, 3) \o <<"Z">>

\* Date.prototype.toUTCString: Www, DD Mon YYYY HH:mm:ss GMT (no milliseconds)
toUTCString(date) ==
  DayNames[WeekDay(date) + 1] \o <<",", " ">> \o Pad(date.d, 2) \o <<" ">>
  \o MonthNames[date.mo] \o <<" ">> \o Pad(date.y, 4) \o <<" ">>
  \o Pad(date.h, 2) \o <<":">> \o Pad(date.mi, 2) \o <<":">> \o Pad(date.s, 2)
  \o <<" ", "G", "M", "T">>

\* new Date(text) for a text in the toISOString layout.
ParseISO(s) ==
  IF /\ Len(s) = 24
     /\ s[5] = "-" /\ s[8] = "-" /\ s[11] = "T" /\ s[14] = ":" /\ s[17] = ":"
     /\ s[20] = "." /\ s[24] = "Z"
     /\ \A i \in (1..23) \ {5, 8, 11, 14, 17, 20} : s[i] \in DigitChars
  THEN MakeDate(Field(s, 1, 4), Field(s, 6, 7), Field(s, 9, 10), Field(s, 12, 13),
                Field(s, 15, 16), Field(s, 18, 19), Field(s, 21, 23))
  ELSE InvalidDate

\* new Date(text) for a text in the toUTCString layout; the day name is
\* read but does not take part in the date.
ParseUTC(s) ==
  IF /\ Len(s) = 29
     /\ SubSeq(s, 1, 3) \in {DayNames[i] : i \in 1..7}
     /\ s[4] = "," /\ s[5] = " " /\ s[8] = " " /\ s[12] = " " /\ s[17] = " "
     /\ s[20] = ":" /\ s[23] = ":" /\ SubSeq(s, 26, 29) = <<" ", "G", "M", "T">>
     /\ SubSeq(s, 9, 11) \in {MonthNames[i] : i \in 1..12}
     /\ \A i \in {6, 7, 13, 14, 15, 16, 18, 19, 21, 22, 24, 25} : s[i] \in DigitChars
  THEN MakeDate(Field(s, 13, 16),
                CHOOSE i \in 1..12 : MonthNames[i] = SubSeq(s, 9, 11),
                Field(s, 6, 7), Field(s, 18, 19), Field(s, 21, 22), Field(s, 24, 25), 0)
  ELSE InvalidDate

\* new Date(text)
NewDate(s) == IF ParseISO(s).ok THEN ParseISO(s) ELSE ParseUTC(s)

\* validator.isISODateString: a non-empty string that is the ISO rendering
\* of the date it parses to.
isISODateString(x) ==
  isNonEmptyString(x) /\ \E date \in {NewDate(x.v)} : date.ok /\ toISOString(date) = x.v

\* validator.isUTCDateString: a non-empty string that is the UTC rendering
\* of the date it parses to.
isUTCDateString(x) ==
  isNonEmptyString(x) /\ \E date \in {NewDate(x.v)} : date.ok /\ toUTCString(date) = x.v

(***************************************************************************)
(* Completion of a constructor or function call: a thrown error or a       *)
(* returned value.                                                         *)
(***************************************************************************)
NoError == [code |-> "", message |-> ""]

\* throw new FirebaseRemoteConfigError(code, message)
Throw(code, message) ==
  [threw |-> TRUE, error |-> [code |-> code, message |-> message], value |-> Undef]

Return(value) == [threw |-> FALSE, error |-> NoError, value |-> value]

(***************************************************************************)
(* VersionImpl                                                             *)
(***************************************************************************)
VersionFields ==
  <<"versionNumber", "updateOrigin", "updateType", "updateUser", "description",
    "rollbackSource", "isLegacy", "updateTime">>

\* Each check yields the message of the error it throws, "" when it passes.
\* Faulty variant of CheckVersionNumber: the Number.isInteger test is left out.
CheckVersionNumberNoIntegerTest(x) ==
  IF ~isNonEmptyString(x) /\ ~isNumber(x)
  THEN "Version number must be a non-empty string in int64 format or a number"
  ELSE ""

CheckVersionNumber(x) ==
  IF ~isNonEmptyString(x) /\ ~isNumber(x)
  THEN "Version number must be a non-empty string in int64 format or a number"
  ELSE IF ~NumberIsInteger(ToNumber(x))
  THEN "Version number must be an integer or a string in int64 format"
  ELSE ""

CheckUpdateOrigin(x) ==
  IF ~isNonEmptyString(x) THEN "Version update origin must be a non-empty string" ELSE ""

CheckUpdateType(x) ==
  IF ~isNonEmptyString(x) THEN "Version update type must be a non-empty string" ELSE ""

CheckUpdateUser(x) ==
  IF ~isNonNullObject(x) THEN "Version update user must be a non-null object" ELSE ""

\* Faulty variant of CheckDescription: any string passes, the empty one included.
CheckDescriptionAnyString(x) ==
  IF x.t # "string" THEN "Version description must be a non-empty string" ELSE ""

CheckDescription(x) ==
  IF ~isNonEmptyString(x) THEN "Version description must be a non-empty string" ELSE ""

CheckRollbackSource(x) ==
  IF ~isNonEmptyString(x) THEN "Version rollback source must be a non-empty string" ELSE ""

CheckIsLegacy(x) ==
  IF ~isBoolean(x) THEN "Version.isLegacy must be a boolean" ELSE ""

CheckUpdateTime(x) ==
  IF ~isISODateString(x) /\ ~isUTCDateString(x)
  THEN "Version update time must be a valid date string"
  ELSE ""

\* What this.updateTime is left as once the check has passed: assigned only
\* on the ISO branch, otherwise never written.
StoreUpdateTime(x) ==
  IF isISODateString(x) THEN Str(Apply(toUTCString, NewDate(x.v))) ELSE Undef

CheckVersionField(f, x) ==
  CASE f = "versionNumber" -> CheckVersionNumber(x)
    [] f = "updateOrigin" -> CheckUpdateOrigin(x)
    [] f = "updateType" -> CheckUpdateType(x)
    [] f = "updateUser" -> CheckUpdateUser(x)
    [] f = "description" -> CheckDescription(x)
    [] f = "rollbackSource" -> CheckRollbackSource(x)
    [] f = "isLegacy" -> CheckIsLegacy(x)
    [] f = "updateTime" -> CheckUpdateTime(x)

StoreVersionField(f, x) == IF f = "updateTime" THEN StoreUpdateTime(x) ELSE x

\* The message of the first check, in source order from field i on, that
\* fails on a field the input has; "" when none does.
RECURSIVE FirstVersionError(_, _)
FirstVersionError(version, i) ==
  IF i > Len(VersionFields) THEN ""
  ELSE
    LET x == Get(version, VersionFields[i])
        message == IF Present(x) THEN CheckVersionField(VersionFields[i], x) ELSE ""
    IN IF message # "" THEN message ELSE FirstVersionError(version, i + 1)

\* new VersionImpl(version): the first failing check throws; the instance
\* carries the properties that were assigned.
VersionImpl(version) ==
  IF ~isNonNullObject(version)
  THEN Throw("invalid-argument", "Invalid Remote Config version instance")
  ELSE
    LET message == FirstVersionError(version, 1)
        set == {f \in {VersionFields[i] : i \in 1..Len(VersionFields)} :
                  Present(Get(version, f)) /\ Present(StoreVersionField(f, Get(version, f)))}
    IN IF message # "" THEN Throw("invalid-argument", message)
       ELSE Return(Obj([f \in set |-> StoreVersionField(f, Get(version, f))]))

\* VersionImpl.toJSON()
VersionToJSON(this) ==
  Obj([f \in {VersionFields[i] : i \in 1..Len(VersionFields)} |-> Get(this, f)])

(***************************************************************************)
(* RemoteConfigTemplateImpl                                                *)
(***************************************************************************)
\* Faulty variant of CheckConfig: the etag test is left out.
CheckConfigObjectOnly(config) ==
  IF ~isNonNullObject(config) THEN "Invalid Remote Config template" ELSE ""

CheckConfig(config) ==
  IF ~isNonNullObject(config) \/ ~isNonEmptyString(Get(config, "etag"))
  THEN "Invalid Remote Config template"
  ELSE ""

CheckParameters(x) ==
  IF Present(x) /\ ~isNonNullObject(x)
  THEN "Remote Config parameters must be a non-null object"
  ELSE ""

\* Faulty variant of StoreParameters: no default for a missing field.
StoreParametersNoDefault(x) == x

StoreParameters(x) == IF Present(x) THEN x ELSE EmptyObj

CheckParameterGroups(x) ==
  IF Present(x) /\ ~isNonNullObject(x)
  THEN "Remote Config parameter groups must be a non-null object"
  ELSE ""

StoreParameterGroups(x) == IF Present(x) THEN x ELSE EmptyObj

CheckConditions(x) ==
  IF Present(x) /\ ~isArray(x) THEN "Remote Config conditions must be an array" ELSE ""

StoreConditions(x) == IF Present(x) THEN x ELSE Arr(<<>>)

\* new RemoteConfigTemplateImpl(config).  The instance is the object of its
\* fields; version is a property of it only when the constructor set it.
RemoteConfigTemplateImpl(config) ==
  LET parameters == Get(config, "parameters")
      parameterGroups == Get(config, "parameterGroups")
      conditions == Get(config, "conditions")
      version == Get(config, "version")
      base == [etagInternal |-> Get(config, "etag"),
               parameters |-> StoreParameters(parameters),
               parameterGroups |-> StoreParameterGroups(parameterGroups),
               conditions |-> StoreConditions(conditions)]
  IN IF CheckConfig(config) # "" THEN Throw("invalid-argument", CheckConfig(config))
     ELSE IF CheckParameters(parameters) # ""
       THEN Throw("invalid-argument", CheckParameters(parameters))
     ELSE IF CheckParameterGroups(parameterGroups) # ""
       THEN Throw("invalid-argument", CheckParameterGroups(parameterGroups))
     ELSE IF CheckConditions(conditions) # ""
       THEN Throw("invalid-argument", CheckConditions(conditions))
     ELSE IF ~Present(version) THEN Return(Obj(base))
     ELSE Apply(LAMBDA v : IF v.threw THEN v ELSE Return(With(Obj(base), "version", v.value)),
                VersionImpl(version))

\* get etag()
EtagOf(this) == Get(this, "etagInternal")

\* RemoteConfigTemplateImpl.toJSON()
TemplateToJSON(this) ==
  Obj([conditions |-> Get(this, "conditions"),
       parameters |-> Get(this, "parameters"),
       parameterGroups |-> Get(this, "parameterGroups"),
       etag |-> EtagOf(this),
       version |-> Get(this, "version")])

(***************************************************************************)
(* JSON.parse on the text's characters: objects, arrays, strings without   *)
(* escapes, decimal numbers, true, false, null, blanks between tokens.     *)
(***************************************************************************)
ParseFail == [ok |-> FALSE, value |-> Undef, pos |-> 0]

Parsed(value, pos) == [ok |-> TRUE, value |-> value, pos |-> pos]

RECURSIVE SkipWs(_, _)
SkipWs(s, i) == IF i <= Len(s) /\ s[i] = " " THEN SkipWs(s, i + 1) ELSE i

\* The text has the word w at position i.
Lit(s, i, w) == i + Len(w) - 1 <= Len(s) /\ SubSeq(s, i, i + Len(w) - 1) = w

\* A property name as the name it denotes.
RECURSIVE Name(_)
Name(chars) == IF chars = <<>> THEN "" ELSE chars[1] \o Name(Tail(chars))

\* The longest run of number characters from position i.
RECURSIVE NumberRun(_, _)
NumberRun(s, i) ==
  IF i <= Len(s) /\ s[i] \in DigitChars \cup {"-", "."}
  THEN <<s[i]>> \o NumberRun(s, i + 1)
  ELSE <<>>

\* A number's value does not depend on how many fraction digits wrote it.
RECURSIVE Normalize(_)
Normalize(n) ==
  IF n.k = "fin" /\ n.den > 1 /\ n.num % 10 = 0
  THEN Normalize([n EXCEPT !.num = n.num \div 10, !.den = n.den \div 10])
  ELSE n

ParseString(s, i) ==
  LET close == {j \in (i + 1)..Len(s) : s[j] = "\""}
      j == CHOOSE j \in close : \A k \in close : j <= k
  IN IF close = {} \/ \E k \in (i + 1)..(j - 1) : s[k] = "\\"
     THEN ParseFail
     ELSE Parsed(Str(SubSeq(s, i + 1, j - 1)), j + 1)

ParseNumber(s, i) ==
  LET run == NumberRun(s, i)
      digits == IF run[1] = "-" THEN Tail(run) ELSE run
  IN IF /\ digits # <<>>
        /\ digits[1] \in DigitChars
        /\ digits[Len(digits)] \in DigitChars
        /\ (Len(digits) = 1 \/ digits[1] # "0" \/ digits[2] = ".")
        /\ StringToNumber(run).k = "fin"
     THEN Parsed([t |-> "number", v |-> Normalize(StringToNumber(run))], i + Len(run))
     ELSE ParseFail

RECURSIVE ParseValue(_, _), ParseMembers(_, _, _), ParseElements(_, _, _)
ParseValue(s, i0) ==
  LET i == SkipWs(s, i0)
  IN IF i > Len(s) THEN ParseFail
     ELSE IF s[i] = "{"
       THEN IF SkipWs(s, i + 1) <= Len(s) /\ s[SkipWs(s, i + 1)] = "}"
            THEN Parsed(EmptyObj, SkipWs(s, i + 1) + 1)
            ELSE ParseMembers(s, i + 1, EmptyObj.v)
     ELSE IF s[i] = "["
       THEN IF SkipWs(s, i + 1) <= Len(s) /\ s[SkipWs(s, i + 1)] = "]"
            THEN Parsed(Arr(<<>>), SkipWs(s, i + 1) + 1)
            ELSE ParseElements(s, i + 1, <<>>)
     ELSE IF s[i] = "\"" THEN ParseString(s, i)
     ELSE IF Lit(s, i, <<"t", "r", "u", "e">>) THEN Parsed(Bool(TRUE), i + 4)
     ELSE IF Lit(s, i, <<"f", "a", "l", "s", "e">>) THEN Parsed(Bool(FALSE), i + 5)
     ELSE IF Lit(s, i, <<"n", "u", "l", "l">>) THEN Parsed(Null, i + 4)
     ELSE IF s[i] \in DigitChars \cup {"-"} THEN ParseNumber(s, i)
     ELSE ParseFail

\* name : value { , name : value } "}" ; a repeated name keeps its last value.
ParseMembers(s, i0, acc) ==
  LET i == SkipWs(s, i0)
      key == IF i <= Len(s) /\ s[i] = "\"" THEN ParseString(s, i) ELSE ParseFail
      colon == SkipWs(s, key.pos)
      val == IF key.ok /\ colon <= Len(s) /\ s[colon] = ":"
             THEN ParseValue(s, colon + 1)
             ELSE ParseFail
      next == SkipWs(s, val.pos)
      props == [k \in DOMAIN acc \cup {Name(key.value.v)} |->
                  IF k = Name(key.value.v) THEN val.value ELSE acc[k]]
  IN IF ~val.ok \/ next > Len(s) THEN ParseFail
     ELSE IF s[next] = "," THEN ParseMembers(s, next + 1, props)
     ELSE IF s[next] = "}" THEN Parsed(Obj(props), next + 1)
     ELSE ParseFail

\* value { , value } "]"
ParseElements(s, i0, acc) ==
  LET val == ParseValue(s, i0)
      next == SkipWs(s, val.pos)
  IN IF ~val.ok \/ next > Len(s) THEN ParseFail
     ELSE IF s[next] = "," THEN ParseElements(s, next + 1, Append(acc, val.value))
     ELSE IF s[next] = "]" THEN Parsed(Arr(Append(acc, val.value)), next + 1)
     ELSE ParseFail

\* JSON.parse(text): the value, or a thrown SyntaxError.
JSONParse(text) ==
  LET r == ParseValue(text, 1)
  IN IF r.ok /\ SkipWs(text, r.pos) = Len(text) + 1
     THEN Return(r.value)
     ELSE Throw("SyntaxError", "Unexpected token in JSON")

(***************************************************************************)
(* Texts, written as their characters.                                     *)
(***************************************************************************)
\* ''
sEmpty ==
  <<>>

\* 'abc'
sAbc ==
  <<"a", "b", "c">>

\* ' '
sBlank ==
  <<" ">>

\* '42'
s42 ==
  <<"4", "2">>

\* '3.5'
s3p5 ==
  <<"3", ".", "5">>

\* '42.0'
s42p0 ==
  <<"4", "2", ".", "0">>

\* 'true'
sTrue ==
  <<"t", "r", "u", "e">>

\* 'tok'
sTok ==
  <<"t", "o", "k">>

\* 'FOO'
sFoo ==
  <<"F", "O", "O">>

\* 'CONSOLE'
sConsole ==
  <<"C", "O", "N", "S", "O", "L", "E">>

\* 'REST_API'
sRestApi ==
  <<"R", "E", "S", "T", "_", "A", "P", "I">>

\* 'ADMIN_SDK_NODE'
sAdminSdkNode ==
  <<"A", "D", "M", "I", "N", "_", "S", "D", "K", "_", "N", "O", "D", "E">>

\* 'REMOTE_CONFIG_UPDATE_ORIGIN_UNSPECIFIED'
sOriginUnspecified ==
  <<"R", "E", "M", "O", "T", "E", "_", "C", "O", "N", "F", "I", "G", "_", "U", "P", "D", "A", "T", "E", "_", "O", "R", "I", "G", "I", "N", "_", "U", "N", "S", "P", "E", "C", "I", "F", "I", "E", "D">>

\* 'REMOTE_CONFIG_UPDATE_TYPE_UNSPECIFIED'
sTypeUnspecified ==
  <<"R", "E", "M", "O", "T", "E", "_", "C", "O", "N", "F", "I", "G", "_", "U", "P", "D", "A", "T", "E", "_", "T", "Y", "P", "E", "_", "U", "N", "S", "P", "E", "C", "I", "F", "I", "E", "D">>

\* 'INCREMENTAL_UPDATE'
sIncrementalUpdate ==
  <<"I", "N", "C", "R", "E", "M", "E", "N", "T", "A", "L", "_", "U", "P", "D", "A", "T", "E">>

\* 'FORCED_UPDATE'
sForcedUpdate ==
  <<"F", "O", "R", "C", "E", "D", "_", "U", "P", "D", "A", "T", "E">>

\* 'ROLLBACK'
sRollback ==
  <<"R", "O", "L", "L", "B", "A", "C", "K">>

\* '2020-06-15T16:45:03.541Z'
sIso ==
  <<"2", "0", "2", "0", "-", "0", "6", "-", "1", "5", "T", "1", "6", ":", "4", "5", ":", "0", "3", ".", "5", "4", "1", "Z">>

\* '2000-02-29T23:59:59.000Z'
sIsoLeap ==
  <<"2", "0", "0", "0", "-", "0", "2", "-", "2", "9", "T", "2", "3", ":", "5", "9", ":", "5", "9", ".", "0", "0", "0", "Z">>

\* '2021-02-29T00:00:00.000Z'
sIsoBadDay ==
  <<"2", "0", "2", "1", "-", "0", "2", "-", "2", "9", "T", "0", "0", ":", "0", "0", ":", "0", "0", ".", "0", "0", "0", "Z">>

\* '2020-06-15T16:45:03Z'
sIsoNoMillis ==
  <<"2", "0", "2", "0", "-", "0", "6", "-", "1", "5", "T", "1", "6", ":", "4", "5", ":", "0", "3", "Z">>

\* 'Mon, 15 Jun 2020 16:45:03 GMT'
sUtc ==
  <<"M", "o", "n", ",", " ", "1", "5", " ", "J", "u", "n", " ", "2", "0", "2", "0", " ", "1", "6", ":", "4", "5", ":", "0", "3", " ", "G", "M", "T">>

\* 'Tue, 29 Feb 2000 23:59:59 GMT'
sUtcLeap ==
  <<"T", "u", "e", ",", " ", "2", "9", " ", "F", "e", "b", " ", "2", "0", "0", "0", " ", "2", "3", ":", "5", "9", ":", "5", "9", " ", "G", "M", "T">>

\* 'Tue, 15 Jun 2020 16:45:03 GMT'
sUtcWrongDay ==
  <<"T", "u", "e", ",", " ", "1", "5", " ", "J", "u", "n", " ", "2", "0", "2", "0", " ", "1", "6", ":", "4", "5", ":", "0", "3", " ", "G", "M", "T">>

\* '{"etag":"abc"}'
TextEtagOnly ==
  <<"{", "\"", "e", "t", "a", "g", "\"", ":", "\"", "a", "b", "c", "\"", "}">>

\* '{not json'
TextNotJson ==
  <<"{", "n", "o", "t", " ", "j", "s", "o", "n">>

\* The texts a caller passes to createTemplateFromJSON.
JsonTexts ==
  {
   TextEtagOnly,
   TextNotJson,
   \* '{"etag":""}'
   <<"{", "\"", "e", "t", "a", "g", "\"", ":", "\"", "\"", "}">>,
   \* '{"etag":7}'
   <<"{", "\"", "e", "t", "a", "g", "\"", ":", "7", "}">>,
   \* '{}'
   <<"{", "}">>,
   \* 'null'
   <<"n", "u", "l", "l">>,
   \* '[]'
   <<"[", "]">>,
   \* '"abc"'
   <<"\"", "a", "b", "c", "\"">>,
   \* '42'
   <<"4", "2">>,
   \* ' { "etag" : "abc" } '
   <<" ", "{", " ", "\"", "e", "t", "a", "g", "\"", " ", ":", " ", "\"", "a", "b", "c", "\"", " ", "}", " ">>,
   \* '{"etag":"abc"} x'
   <<"{", "\"", "e", "t", "a", "g", "\"", ":", "\"", "a", "b", "c", "\"", "}", " ", "x">>,
   \* '{"etag":"abc","parameters":null}'
   <<"{", "\"", "e", "t", "a", "g", "\"", ":", "\"", "a", "b", "c", "\"", ",", "\"", "p", "a", "r", "a", "m", "e", "t", "e", "r", "s", "\"", ":", "n", "u", "l", "l", "}">>,
   \* '{"etag":"abc","parameterGroups":[]}'
   <<"{", "\"", "e", "t", "a", "g", "\"", ":", "\"", "a", "b", "c", "\"", ",", "\"", "p", "a", "r", "a", "m", "e", "t", "e", "r", "G", "r", "o", "u", "p", "s", "\"", ":", "[", "]", "}">>,
   \* '{"etag":"abc","conditions":{}}'
   <<"{", "\"", "e", "t", "a", "g", "\"", ":", "\"", "a", "b", "c", "\"", ",", "\"", "c", "o", "n", "d", "i", "t", "i", "o", "n", "s", "\"", ":", "{", "}", "}">>,
   \* '{"etag":"abc","parameters":{"p":{}},"parameterGroups":{"g":{}},"conditions":[{"name":"ios"}]}'
   <<"{", "\"", "e", "t", "a", "g", "\"", ":", "\"", "a", "b", "c", "\"", ",", "\"", "p", "a", "r", "a", "m", "e", "t", "e", "r", "s", "\"", ":", "{", "\"", "p", "\"", ":", "{", "}", "}", ",", "\"", "p", "a", "r", "a", "m", "e", "t", "e", "r", "G", "r", "o", "u", "p", "s", "\"", ":", "{", "\"", "g", "\"", ":", "{", "}", "}", ",", "\"", "c", "o", "n", "d", "i", "t", "i", "o", "n", "s", "\"", ":", "[", "{", "\"", "n", "a", "m", "e", "\"", ":", "\"", "i", "o", "s", "\"", "}", "]", "}">>,
   \* '{"etag":"abc","version":{"versionNumber":"42"}}'
   <<"{", "\"", "e", "t", "a", "g", "\"", ":", "\"", "a", "b", "c", "\"", ",", "\"", "v", "e", "r", "s", "i", "o", "n", "\"", ":", "{", "\"", "v", "e", "r", "s", "i", "o", "n", "N", "u", "m", "b", "e", "r", "\"", ":", "\"", "4", "2", "\"", "}", "}">>,
   \* '{"etag":"abc","version":{"versionNumber":42}}'
   <<"{", "\"", "e", "t", "a", "g", "\"", ":", "\"", "a", "b", "c", "\"", ",", "\"", "v", "e", "r", "s", "i", "o", "n", "\"", ":", "{", "\"", "v", "e", "r", "s", "i", "o", "n", "N", "u", "m", "b", "e", "r", "\"", ":", "4", "2", "}", "}">>,
   \* '{"etag":"abc","version":{"versionNumber":3.5}}'
   <<"{", "\"", "e", "t", "a", "g", "\"", ":", "\"", "a", "b", "c", "\"", ",", "\"", "v", "e", "r", "s", "i", "o", "n", "\"", ":", "{", "\"", "v", "e", "r", "s", "i", "o", "n", "N", "u", "m", "b", "e", "r", "\"", ":", "3", ".", "5", "}", "}">>,
   \* '{"etag":"abc","version":{"versionNumber":"3.5"}}'
   <<"{", "\"", "e", "t", "a", "g", "\"", ":", "\"", "a", "b", "c", "\"", ",", "\"", "v", "e", "r", "s", "i", "o", "n", "\"", ":", "{", "\"", "v", "e", "r", "s", "i", "o", "n", "N", "u", "m", "b", "e", "r", "\"", ":", "\"", "3", ".", "5", "\"", "}", "}">>,
   \* '{"etag":"abc","version":null}'
   <<"{", "\"", "e", "t", "a", "g", "\"", ":", "\"", "a", "b", "c", "\"", ",", "\"", "v", "e", "r", "s", "i", "o", "n", "\"", ":", "n", "u", "l", "l", "}">>,
   \* '{"etag":"abc","version":{"updateTime":"2020-06-15T16:45:03.541Z"}}'
   <<"{", "\"", "e", "t", "a", "g", "\"", ":", "\"", "a", "b", "c", "\"", ",", "\"", "v", "e", "r", "s", "i", "o", "n", "\"", ":", "{", "\"", "u", "p", "d", "a", "t", "e", "T", "i", "m", "e", "\"", ":", "\"", "2", "0", "2", "0", "-", "0", "6", "-", "1", "5", "T", "1", "6", ":", "4", "5", ":", "0", "3", ".", "5", "4", "1", "Z", "\"", "}", "}">>,
   \* '{"etag":"abc","version":{"updateTime":"Mon, 15 Jun 2020 16:45:03 GMT"}}'
   <<"{", "\"", "e", "t", "a", "g", "\"", ":", "\"", "a", "b", "c", "\"", ",", "\"", "v", "e", "r", "s", "i", "o", "n", "\"", ":", "{", "\"", "u", "p", "d", "a", "t", "e", "T", "i", "m", "e", "\"", ":", "\"", "M", "o", "n", ",", " ", "1", "5", " ", "J", "u", "n", " ", "2", "0", "2", "0", " ", "1", "6", ":", "4", "5", ":", "0", "3", " ", "G", "M", "T", "\"", "}", "}">>,
   \* '{"etag":"abc","version":{"description":""}}'
   <<"{", "\"", "e", "t", "a", "g", "\"", ":", "\"", "a", "b", "c", "\"", ",", "\"", "v", "e", "r", "s", "i", "o", "n", "\"", ":", "{", "\"", "d", "e", "s", "c", "r", "i", "p", "t", "i", "o", "n", "\"", ":", "\"", "\"", "}", "}">>,
   \* '{"etag":"abc","version":{"updateOrigin":"FOO","isLegacy":true}}'
   <<"{", "\"", "e", "t", "a", "g", "\"", ":", "\"", "a", "b", "c", "\"", ",", "\"", "v", "e", "r", "s", "i", "o", "n", "\"", ":", "{", "\"", "u", "p", "d", "a", "t", "e", "O", "r", "i", "g", "i", "n", "\"", ":", "\"", "F", "O", "O", "\"", ",", "\"", "i", "s", "L", "e", "g", "a", "c", "y", "\"", ":", "t", "r", "u", "e", "}", "}">>}

(***************************************************************************)
(* Inputs: what the transport client may answer and what a caller may pass *)
(***************************************************************************)
\* The longest list of versions a listVersions response carries.
MaxVersions == 2

VersionNumberValues ==
  {Str(s42), Str(s3p5), Str(s42p0), Num(42), Frac(35, 10), Str(sEmpty), Str(sBlank),
   Str(sAbc), NaN, Null, Bool(TRUE), EmptyObj}

UpdateOriginValues ==
  {Str(sConsole), Str(sAdminSdkNode), Str(sFoo), Str(sEmpty), Num(1), Null}

UpdateTypeValues == {Str(sForcedUpdate), Str(sRollback), Str(sFoo), Str(sEmpty), Arr(<<>>)}

UpdateUserValues ==
  {Obj([email |-> Str(sAbc)]), EmptyObj, Null, Arr(<<>>), Str(sAbc)}

DescriptionValues == {Str(sAbc), Str(sEmpty), Num(1)}

RollbackSourceValues == {Str(s42), Str(sEmpty), Bool(FALSE)}

IsLegacyValues == {Bool(TRUE), Bool(FALSE), Str(sTrue), Null}

UpdateTimeValues ==
  {Str(sIso), Str(sIsoLeap), Str(sIsoBadDay), Str(sIsoNoMillis), Str(sUtc), Str(sUtcLeap),
   Str(sUtcWrongDay), Str(sAbc), Str(sEmpty), Num(5)}

VersionFieldValues(f) ==
  CASE f = "versionNumber" -> VersionNumberValues
    [] f = "updateOrigin" -> UpdateOriginValues
    [] f = "updateType" -> UpdateTypeValues
    [] f = "updateUser" -> UpdateUserValues
    [] f = "description" -> DescriptionValues
    [] f = "rollbackSource" -> RollbackSourceValues
    [] f = "isLegacy" -> IsLegacyValues
    [] f = "updateTime" -> UpdateTimeValues

\* A version as the service sends it, every field set.
FullVersion ==
  Obj([versionNumber |-> Str(s42), updateOrigin |-> Str(sConsole),
       updateType |-> Str(sIncrementalUpdate), updateUser |-> Obj([email |-> Str(sAbc)]),
       description |-> Str(sAbc), rollbackSource |-> Str(s42), isLegacy |-> Bool(FALSE),
       updateTime |-> Str(sIso)])

\* Version inputs: values that are no object, and objects that differ from
\* the empty and from the full version in one field.
VersionInputs ==
  {Null, Arr(<<>>), Str(sAbc), EmptyObj, FullVersion}
  \cup UNION {{With(base, VersionFields[i], x) :
                  base \in {EmptyObj, FullVersion},
                  x \in VersionFieldValues(VersionFields[i])} :
               i \in 1..Len(VersionFields)}

EtagValues == {Str(sAbc), Str(sEmpty), Num(7), Null}

ParametersValues == {EmptyObj, Obj([p |-> EmptyObj]), Null, Arr(<<>>), Str(sAbc)}

ParameterGroupsValues == {EmptyObj, Obj([g |-> EmptyObj]), Null, Arr(<<>>), Num(0)}

ConditionsValues ==
  {Arr(<<>>), Arr(<<Obj([name |-> Str(sAbc)])>>), Arr(<<Num(1)>>), EmptyObj, Null}

TemplateFieldValues(f) ==
  CASE f = "etag" -> EtagValues
    [] f = "parameters" -> ParametersValues
    [] f = "parameterGroups" -> ParameterGroupsValues
    [] f = "conditions" -> ConditionsValues
    [] f = "version" -> VersionInputs

EtagOnly == Obj([etag |-> Str(sAbc)])

FullTemplate ==
  Obj([etag |-> Str(sAbc), parameters |-> Obj([p |-> EmptyObj]),
       parameterGroups |-> Obj([g |-> EmptyObj]),
       conditions |-> Arr(<<Obj([name |-> Str(sAbc)])>>), version |-> FullVersion])

\* Template records: values that are no object, and objects that differ
\* from the etag-only and from the full template in one field.
TemplateInputs ==
  {Undef, Null, Arr(<<>>), Str(sAbc), Num(1), EmptyObj, EtagOnly, FullTemplate}
  \cup UNION {{With(base, f, x) :
                  base \in {EtagOnly, FullTemplate}, x \in TemplateFieldValues(f)} :
               f \in {"etag", "parameters", "parameterGroups", "conditions", "version"}}

ListedVersions ==
  {EmptyObj, FullVersion, With(EmptyObj, "updateTime", Str(sUtc)),
   With(EmptyObj, "versionNumber", Num(7)), With(FullVersion, "versionNumber", Str(s3p5)),
   Null}

RECURSIVE SeqsUpTo(_, _)
SeqsUpTo(S, n) ==
  IF n = 0 THEN {<<>>}
  ELSE SeqsUpTo(S, n - 1)
       \cup {Append(q, x) : q \in {r \in SeqsUpTo(S, n - 1) : Len(r) = n - 1}, x \in S}

\* listVersions responses: versions missing, null, or a list; the page
\* token present or not.
ListVersionsResponses ==
  LET versions == {Undef, Null} \cup {Arr(q) : q \in SeqsUpTo(ListedVersions, MaxVersions)}
  IN {Obj([f \in {} |-> Undef])}
     \cup {Obj([versions |-> v]) : v \in versions \ {Undef}}
     \cup {Obj([versions |-> v, nextPageToken |-> Str(sTok)]) : v \in versions}

\* Errors of the transport layer: network failure, etag conflict, the
\* service's own validation.
TransportErrors ==
  {[code |-> "unknown-error", message |-> "network timeout"],
   [code |-> "failed-precondition", message |-> "etag mismatch"],
   [code |-> "invalid-argument", message |-> "server rejected the template"]}

VersionNumberArgs == {Num(7), Str(s42)}

TemplateArgs == {TemplateToJSON(RemoteConfigTemplateImpl(EtagOnly).value)}

PublishOptions == {Undef, Obj([force |-> Bool(TRUE)])}

ListVersionsOptions == {Undef, Obj([pageSize |-> Num(2)])}

JsonArgs == {Str(t) : t \in JsonTexts \cup {sEmpty}} \cup {Undef, Null, Num(1), EmptyObj}

(***************************************************************************)
(* The service facade as a state machine.  One caller invokes one          *)
(* operation at a time and keeps the template its latest call produced.    *)
(***************************************************************************)
VARIABLES
  pc,           \* "idle", or "pending" while the transport call is outstanding
  op,           \* the operation invoked last
  arg,          \* its argument
  clientCalls,  \* calls made to the transport client by this invocation
  handlerRan,   \* whether the .then callback of this invocation has run
  response,     \* how the transport client's promise settled
  template,     \* createTemplateFromJSON's local: the parsed value
  outcome,      \* what the invocation gave its caller
  held,         \* the template object the caller holds
  json,         \* what the caller's latest held.toJSON() returned
  calls,        \* operations invoked so far
  callerError,  \* the error the caller's latest statement on held raised
  callerSteps   \* statements the caller has run on held

vars ==
  <<pc, op, arg, clientCalls, handlerRan, response, template, outcome, held, json,
    calls, callerError, callerSteps>>

\* The number of operations a caller invokes.
MaxCalls == 1

\* The number of statements a caller runs on one template.
MaxCallerSteps == 2

NoResponse == [kind |-> "none", value |-> Undef, error |-> NoError]

NoOutcome == [kind |-> "none", value |-> Undef, error |-> NoError]

TemplateOps ==
  {"getTemplate", "getTemplateAtVersion", "validateTemplate", "publishTemplate", "rollback"}

Init ==
  /\ pc = "idle"
  /\ op = "none"
  /\ arg = Undef
  /\ clientCalls = 0
  /\ handlerRan = FALSE
  /\ response = NoResponse
  /\ template = Undef
  /\ outcome = NoOutcome
  /\ held = Undef
  /\ json = Undef
  /\ calls = 0
  /\ callerError = ""
  /\ callerSteps = 0

\* (templateResponse) => new RemoteConfigTemplateImpl(templateResponse)
TemplateHandler(templateResponse) == RemoteConfigTemplateImpl(templateResponse)

\* Faulty variant of MapVersions: versions?.map(...) without the ?? [] default.
MapVersionsNoDefault(versions) ==
  IF versions.t \in {"undefined", "null"} THEN Return(Undef)
  ELSE
    Apply(LAMBDA mapped :
            LET bad == {i \in DOMAIN mapped : mapped[i].threw}
            IN IF bad # {} THEN mapped[CHOOSE i \in bad : \A j \in bad : i <= j]
               ELSE Return(Arr([i \in DOMAIN mapped |-> mapped[i].value])),
          [i \in 1..Len(versions.v) |-> VersionImpl(versions.v[i])])

\* versions?.map(version => new VersionImpl(version)) ?? [] : map throws
\* what the first failing element throws.
MapVersions(versions) ==
  IF versions.t \in {"undefined", "null"} THEN Return(Arr(<<>>))
  ELSE
    Apply(LAMBDA mapped :
            LET bad == {i \in DOMAIN mapped : mapped[i].threw}
            IN IF bad # {} THEN mapped[CHOOSE i \in bad : \A j \in bad : i <= j]
               ELSE Return(Arr([i \in DOMAIN mapped |-> mapped[i].value])),
          [i \in 1..Len(versions.v) |-> VersionImpl(versions.v[i])])

\* (listVersionsResponse) => ({versions: ..., nextPageToken: ...})
ListVersionsHandler(listVersionsResponse) ==
  Apply(LAMBDA versions :
          IF versions.threw THEN versions
          ELSE Return(Obj([versions |-> versions.value,
                           nextPageToken |-> Get(listVersionsResponse, "nextPageToken")])),
        MapVersions(Get(listVersionsResponse, "versions")))

Handler(o, r) == IF o = "listVersions" THEN ListVersionsHandler(r) ELSE TemplateHandler(r)

\* promise.then(callback): the promise the operation returned is fulfilled
\* with what the callback returns, rejected with what it throws.
Then(completion) ==
  IF completion.threw
  THEN [kind |-> "rejected", value |-> Undef, error |-> completion.error]
  ELSE [kind |-> "fulfilled", value |-> completion.value, error |-> NoError]

\* A synchronous call: its value, or the error it throws at its caller.
Sync(completion) ==
  IF completion.threw
  THEN [kind |-> "thrown", value |-> Undef, error |-> completion.error]
  ELSE [kind |-> "returned", value |-> completion.value, error |-> NoError]

\* return this.client.<o>(a).then(...): one call to the client, and the
\* caller has a pending promise.
Invoke(o, a) ==
  /\ pc = "idle"
  /\ calls < MaxCalls
  /\ calls' = calls + 1
  /\ pc' = "pending"
  /\ op' = o
  /\ arg' = a
  /\ clientCalls' = 1
  /\ handlerRan' = FALSE
  /\ response' = NoResponse
  /\ template' = Undef
  /\ outcome' = [kind |-> "pending", value |-> Undef, error |-> NoError]
  /\ held' = Undef
  /\ json' = Undef
  /\ callerError' = ""
  /\ callerSteps' = 0

GetTemplate == Invoke("getTemplate", Undef)

GetTemplateAtVersion == \E versionNumber \in VersionNumberArgs :
  Invoke("getTemplateAtVersion", versionNumber)

ValidateTemplate == \E t \in TemplateArgs : Invoke("validateTemplate", t)

PublishTemplate == \E t \in TemplateArgs, options \in PublishOptions :
  Invoke("publishTemplate", Arr(<<t, options>>))

Rollback == \E versionNumber \in VersionNumberArgs : Invoke("rollback", versionNumber)

ListVersions == \E options \in ListVersionsOptions : Invoke("listVersions", options)

\* The client's promise is fulfilled with r and the .then callback runs.
Resolved(r) ==
  /\ pc = "pending"
  /\ \E completion \in {Handler(op, r)} :
     /\ pc' = "idle"
     /\ response' = [kind |-> "resolved", value |-> r, error |-> NoError]
     /\ handlerRan' = TRUE
     /\ outcome' = Then(completion)
     /\ held' = IF op \in TemplateOps THEN completion.value ELSE Undef
     /\ UNCHANGED <<op, arg, clientCalls, template, json, calls, callerError, callerSteps>>

\* What the transport client may fulfil its promise with for operation o.
ClientResponses(o) == IF o = "listVersions" THEN ListVersionsResponses ELSE TemplateInputs

ClientResolve ==
  /\ pc = "pending"
  /\ \E r \in ClientResponses(op) : Resolved(r)

\* The most calls the retrying variant makes.
MaxRetries == 2

\* Faulty variant of Rejected: the operation calls the client again after a failure.
RejectedRetry(e) ==
  /\ pc = "pending"
  /\ clientCalls <= MaxRetries
  /\ clientCalls' = clientCalls + 1
  /\ response' = [kind |-> "rejected", value |-> Undef, error |-> e]
  /\ UNCHANGED <<pc, op, arg, handlerRan, template, outcome, held, json, calls, callerError,
                 callerSteps>>

\* The client's promise is rejected with e: .then has no rejection callback,
\* so the returned promise is rejected with e.
Rejected(e) ==
  /\ pc = "pending"
  /\ pc' = "idle"
  /\ response' = [kind |-> "rejected", value |-> Undef, error |-> e]
  /\ outcome' = [kind |-> "rejected", value |-> Undef, error |-> e]
  /\ UNCHANGED <<op, arg, clientCalls, handlerRan, template, held, json, calls, callerError,
                 callerSteps>>

ClientReject ==
  /\ pc = "pending"
  /\ \E e \in TransportErrors : Rejected(e)

\* The value createTemplateFromJSON leaves in its local template: the
\* parsed text, when control reaches line 178.
ParsedTemplate(j) ==
  IF isNonEmptyString(j) /\ ~JSONParse(j.v).threw THEN JSONParse(j.v).value ELSE Undef

\* Faulty variant of CreateTemplateFromJSONResult: JSON.parse outside any try, so
\* its SyntaxError reaches the caller.
CreateTemplateFromJSONNoCatch(j) ==
  IF ~isNonEmptyString(j)
  THEN Throw("invalid-argument", "JSON string must be a valid non-empty string")
  ELSE IF JSONParse(j.v).threw
  THEN JSONParse(j.v)
  ELSE Apply(RemoteConfigTemplateImpl, ParsedTemplate(j))

\* createTemplateFromJSON(json)
CreateTemplateFromJSONResult(j) ==
  IF ~isNonEmptyString(j)
  THEN Throw("invalid-argument", "JSON string must be a valid non-empty string")
  ELSE IF JSONParse(j.v).threw
  THEN Throw("invalid-argument", "Failed to parse the JSON string")
  ELSE Apply(RemoteConfigTemplateImpl, ParsedTemplate(j))

\* The call's local and completion for each text a caller passes, computed
\* once.
createTemplateFromJSON[j \in JsonArgs] ==
  [template |-> ParsedTemplate(j), completion |-> CreateTemplateFromJSONResult(j)]

CreateTemplateFromJSON ==
  /\ pc = "idle"
  /\ calls < MaxCalls
  /\ \E j \in JsonArgs : \E call \in {createTemplateFromJSON[j]} :
       /\ calls' = calls + 1
       /\ op' = "createTemplateFromJSON"
       /\ arg' = j
       /\ clientCalls' = 0
       /\ handlerRan' = FALSE
       /\ response' = NoResponse
       /\ template' = call.template
       /\ outcome' = Sync(call.completion)
       /\ held' = call.completion.value
       /\ json' = Undef
       /\ callerError' = ""
       /\ callerSteps' = 0
       /\ UNCHANGED pc

(***************************************************************************)
(* The caller's statements on the template it holds                        *)
(***************************************************************************)
\* The caller holds a template and runs one more statement on it.
CallerStep ==
  /\ held # Undef
  /\ callerSteps < MaxCallerSteps
  /\ callerSteps' = callerSteps + 1

\* held.<field> = x for a public field
Assign(field, x) ==
  /\ CallerStep
  /\ held' = With(held, field, x)
  /\ callerError' = ""
  /\ UNCHANGED <<pc, op, arg, clientCalls, handlerRan, response, template, outcome, json,
                 calls>>

SetParameters == \E x \in {Obj([q |-> EmptyObj]), Null} : Assign("parameters", x)

SetParameterGroups == \E x \in {Obj([h |-> EmptyObj])} : Assign("parameterGroups", x)

SetConditions == \E x \in {Arr(<<Obj([name |-> Str(sFoo)])>>)} : Assign("conditions", x)

SetVersion == \E x \in {Obj([versionNumber |-> Str(s42)])} : Assign("version", x)

\* Faulty variant of AssignEtagTo: etag is a plain writable field.
AssignEtagWrites(this, x) == With(this, "etagInternal", x)

\* this after this.etag = x : etag is an accessor with a getter and no
\* setter, so nothing is written.
AssignEtagTo(this, x) == this

\* held.etag = x : a TypeError in a strict-mode caller, silence in a sloppy
\* one.
AssignEtag == \E x \in {Str(sFoo), Str(sEmpty)}, e \in {"TypeError", ""} :
  /\ CallerStep
  /\ held' = AssignEtagTo(held, x)
  /\ callerError' = e
  /\ UNCHANGED <<pc, op, arg, clientCalls, handlerRan, response, template, outcome, json,
                 calls>>

\* held.toJSON()
ToJSON ==
  /\ CallerStep
  /\ json' = TemplateToJSON(held)
  /\ callerError' = ""
  /\ UNCHANGED <<pc, op, arg, clientCalls, handlerRan, response, template, outcome, held,
                 calls>>

Next ==
  \/ GetTemplate
  \/ GetTemplateAtVersion
  \/ ValidateTemplate
  \/ PublishTemplate
  \/ Rollback
  \/ ListVersions
  \/ ClientResolve
  \/ ClientReject
  \/ CreateTemplateFromJSON
  \/ SetParameters
  \/ SetParameterGroups
  \/ SetConditions
  \/ SetVersion
  \/ AssignEtag
  \/ ToJSON

Spec == Init /\ [][Next]_vars

(***************************************************************************)
(* Properties                                                              *)
(***************************************************************************)
FacadeOps == TemplateOps \cup {"listVersions"}

\* The value the template constructor was called with by the latest
\* operation.
ConstructorInput == IF op = "createTemplateFromJSON" THEN template ELSE response.value

\* The latest operation reached new RemoteConfigTemplateImpl(...).
TemplateConstruction ==
  \/ op \in TemplateOps /\ response.kind = "resolved"
  \/ op = "createTemplateFromJSON" /\ template # Undef

Succeeded == outcome.kind \in {"fulfilled", "returned"}

Constructed == TemplateConstruction /\ Succeeded

InvalidArgument ==
  /\ outcome.kind \in {"rejected", "thrown"}
  /\ outcome.error.code = "invalid-argument"

\* c passes every test the template constructor makes before it looks at
\* c.version.
TemplateShapeOK(c) ==
  /\ isNonNullObject(c)
  /\ isNonEmptyString(Get(c, "etag"))
  /\ Present(Get(c, "parameters")) => isNonNullObject(Get(c, "parameters"))
  /\ Present(Get(c, "parameterGroups")) => isNonNullObject(Get(c, "parameterGroups"))
  /\ Present(Get(c, "conditions")) => isArray(Get(c, "conditions"))

\* The latest operation ran the version constructor, or would have but for
\* an earlier list entry: on the version of a template, or on the entries
\* of a listVersions response.
VersionsSettled ==
  \/ /\ TemplateConstruction
     /\ TemplateShapeOK(ConstructorInput)
     /\ Present(Get(ConstructorInput, "version"))
  \/ op = "listVersions" /\ response.kind = "resolved"

\* The version inputs of the latest operation.
VersionInputsGiven ==
  IF ~VersionsSettled THEN {}
  ELSE IF op = "listVersions"
  THEN IF isArray(Get(response.value, "versions"))
       THEN {Get(response.value, "versions").v[i] :
               i \in 1..Len(Get(response.value, "versions").v)}
       ELSE {}
  ELSE {Get(ConstructorInput, "version")}

\* <<input, output>> for every version the latest operation constructed and
\* gave its caller.
VersionPairs ==
  IF ~(VersionsSettled /\ Succeeded) THEN {}
  ELSE IF op = "listVersions"
  THEN IF isArray(Get(response.value, "versions"))
       THEN {<<Get(response.value, "versions").v[i], Get(outcome.value, "versions").v[i]>> :
               i \in 1..Len(Get(response.value, "versions").v)}
       ELSE {}
  ELSE {<<Get(ConstructorInput, "version"), Get(outcome.value, "version")>>}

\* C1: template construction fails with invalid-argument for every input
\* that is not a non-null, non-array object or whose etag is missing, not a
\* string or empty; no template with an absent or empty etag is produced.
EtagRequired ==
  TemplateConstruction =>
    /\ (~isNonNullObject(ConstructorInput)
        \/ ~isNonEmptyString(Get(ConstructorInput, "etag"))) => InvalidArgument
    /\ Succeeded =>
         /\ EtagOf(outcome.value).t = "string"
         /\ Len(EtagOf(outcome.value).v) > 0
         /\ EtagOf(outcome.value) = Get(ConstructorInput, "etag")

\* An object with an empty etag came back from the service and the
\* operation was rejected.
EtagRequiredWitness ==
  /\ op \in TemplateOps
  /\ response.kind = "resolved"
  /\ isNonNullObject(response.value)
  /\ Get(response.value, "etag") = Str(sEmpty)
  /\ InvalidArgument

\* C2: for every accepted version input, an ISO updateTime comes out as the
\* UTC rendering of that instant, and a UTC-format updateTime comes out
\* present and unchanged.
UpdateTimeNormalized ==
  \A p \in VersionPairs :
    \A x \in {Get(p[1], "updateTime")} :
      /\ isISODateString(x) =>
           Get(p[2], "updateTime") = Str(toUTCString(NewDate(x.v)))
      /\ isUTCDateString(x) =>
           /\ Present(Get(p[2], "updateTime"))
           /\ Get(p[2], "updateTime") = x

\* C3: for every template T the constructor produced, constructing a
\* template from T.toJSON() succeeds and yields the same conditions,
\* parameters, parameterGroups, etag and version field values as T.
RoundTrip ==
  Constructed =>
    \A again \in {RemoteConfigTemplateImpl(TemplateToJSON(outcome.value))} :
      /\ ~again.threw
      /\ \A f \in {"conditions", "parameters", "parameterGroups", "etag"} :
           Get(TemplateToJSON(again.value), f) = Get(TemplateToJSON(outcome.value), f)
      /\ Present(Get(again.value, "version")) = Present(Get(outcome.value, "version"))
      /\ Present(Get(outcome.value, "version")) =>
           VersionToJSON(Get(again.value, "version"))
             = VersionToJSON(Get(outcome.value, "version"))

\* x is a version number the constructor must refuse.
BadVersionNumber(x) ==
  \/ ~isNonEmptyString(x) /\ ~isNumber(x)
  \/ ~NumberIsInteger(ToNumber(x))

\* C4: a version input whose versionNumber is neither a non-empty string
\* nor a number, or does not convert to an integer, fails with
\* invalid-argument; an integer-valued string or number is accepted and
\* comes out as the very value that went in.
VersionNumberRule ==
  /\ (\E v \in VersionInputsGiven :
        /\ isNonNullObject(v)
        /\ Present(Get(v, "versionNumber"))
        /\ BadVersionNumber(Get(v, "versionNumber"))) => InvalidArgument
  /\ \A p \in VersionPairs :
       Present(Get(p[1], "versionNumber")) =>
         /\ ~BadVersionNumber(Get(p[1], "versionNumber"))
         /\ Get(p[2], "versionNumber") = Get(p[1], "versionNumber")
  /\ (/\ VersionsSettled
      /\ \A v \in VersionInputsGiven :
           /\ isNonNullObject(v)
           /\ DOMAIN v.v = {"versionNumber"}
           /\ ~BadVersionNumber(Get(v, "versionNumber"))) => Succeeded

\* JSON text whose version number is the string "3.5" was refused.
VersionNumberRuleWitness ==
  /\ op = "createTemplateFromJSON"
  /\ \E v \in VersionInputsGiven : Get(v, "versionNumber") = Str(s3p5)
  /\ InvalidArgument

Origins == {sOriginUnspecified, sConsole, sRestApi, sAdminSdkNode}

Types == {sTypeUnspecified, sIncrementalUpdate, sForcedUpdate, sRollback}

\* Field f of a version input, holding x, is as the data model has it.
DataModelOK(f, x) ==
  CASE f = "versionNumber" -> ~BadVersionNumber(x)
    [] f = "updateOrigin" -> x.t = "string" /\ x.v \in Origins
    [] f = "updateType" -> x.t = "string" /\ x.v \in Types
    [] f = "updateUser" -> isNonNullObject(x)
    [] f = "description" -> x.t = "string"
    [] f = "rollbackSource" -> x.t = "string"
    [] f = "isLegacy" -> isBoolean(x)
    [] f = "updateTime" -> isISODateString(x) \/ isUTCDateString(x)

\* Field f of a version input, holding x, is what the constructor's tests
\* let through: the four text fields need only be non-empty strings.
NonEmptyOK(f, x) ==
  CASE f = "versionNumber" -> ~BadVersionNumber(x)
    [] f = "updateOrigin" -> x.t = "string" /\ Len(x.v) > 0
    [] f = "updateType" -> x.t = "string" /\ Len(x.v) > 0
    [] f = "updateUser" -> isNonNullObject(x)
    [] f = "description" -> x.t = "string" /\ Len(x.v) > 0
    [] f = "rollbackSource" -> x.t = "string" /\ Len(x.v) > 0
    [] f = "isLegacy" -> isBoolean(x)
    [] f = "updateTime" -> isISODateString(x) \/ isUTCDateString(x)

\* C5 as the specification states it: a version input is accepted exactly
\* when every present field satisfies its data-model constraint
\* (updateOrigin and updateType among the listed values, description and
\* rollbackSource strings, updateUser a non-null object, isLegacy a
\* boolean), and a refusal is an invalid-argument error.
VersionAcceptedPerDataModel ==
  VersionsSettled =>
    /\ Succeeded <=>
         \A v \in VersionInputsGiven :
           /\ isNonNullObject(v)
           /\ \A i \in 1..Len(VersionFields) :
                Present(Get(v, VersionFields[i])) =>
                  DataModelOK(VersionFields[i], Get(v, VersionFields[i]))
    /\ Succeeded \/ InvalidArgument

\* C5, amended: a version input is accepted exactly when every present
\* field passes the constructor's test: updateOrigin, updateType,
\* description and rollbackSource non-empty strings of any content,
\* updateUser a non-null object, isLegacy a boolean; a refusal is an
\* invalid-argument error.
VersionAcceptedWhenNonEmpty ==
  VersionsSettled =>
    /\ Succeeded <=>
         \A v \in VersionInputsGiven :
           /\ isNonNullObject(v)
           /\ \A i \in 1..Len(VersionFields) :
                Present(Get(v, VersionFields[i])) =>
                  NonEmptyOK(VersionFields[i], Get(v, VersionFields[i]))
    /\ Succeeded \/ InvalidArgument

\* A version whose updateOrigin is none of the listed values was accepted.
VersionAcceptedWitness ==
  \E p \in VersionPairs :
    /\ Get(p[1], "updateOrigin") = Str(sFoo)
    /\ Get(p[2], "updateOrigin") = Str(sFoo)

\* C6: a constructed template has parameters and parameterGroups non-null
\* objects and conditions a sequence, each the input's value when the input
\* has the field and empty when it has not; a present field of the wrong
\* kind fails with invalid-argument.
CollectionsDefaulted ==
  TemplateConstruction =>
    /\ Succeeded =>
         /\ isNonNullObject(Get(outcome.value, "parameters"))
         /\ isNonNullObject(Get(outcome.value, "parameterGroups"))
         /\ isArray(Get(outcome.value, "conditions"))
         /\ \A f \in {"parameters", "parameterGroups", "conditions"} :
              Get(outcome.value, f) =
                IF Present(Get(ConstructorInput, f)) THEN Get(ConstructorInput, f)
                ELSE IF f = "conditions" THEN Arr(<<>>)
                ELSE EmptyObj
    /\ (\/ /\ Present(Get(ConstructorInput, "parameters"))
           /\ ~isNonNullObject(Get(ConstructorInput, "parameters"))
        \/ /\ Present(Get(ConstructorInput, "parameterGroups"))
           /\ ~isNonNullObject(Get(ConstructorInput, "parameterGroups"))
        \/ /\ Present(Get(ConstructorInput, "conditions"))
           /\ ~isArray(Get(ConstructorInput, "conditions"))) => InvalidArgument

\* A template was constructed from an input without parameters and has the
\* empty mapping.
CollectionsDefaultedWitness ==
  /\ Constructed
  /\ ~Present(Get(ConstructorInput, "parameters"))
  /\ Get(outcome.value, "parameters") = EmptyObj

\* C7: createTemplateFromJSON makes no call to the client and throws
\* invalid-argument synchronously when its input is not a non-empty string
\* or does not parse; for text that parses its outcome is the template
\* constructor's on the parsed value, so text with only an etag gives a
\* template with empty parameters, parameterGroups and conditions.
FromJSONSynchronous ==
  op = "createTemplateFromJSON" =>
    /\ clientCalls = 0
    /\ response = NoResponse
    /\ pc = "idle"
    /\ outcome.kind \in {"thrown", "returned"}
    /\ \/ ~isNonEmptyString(arg)
       \/ JSONParse(arg.v).threw
       => outcome.kind = "thrown" /\ outcome.error.code = "invalid-argument"
    /\ isNonEmptyString(arg) /\ ~JSONParse(arg.v).threw =>
         outcome = Sync(RemoteConfigTemplateImpl(JSONParse(arg.v).value))
    /\ arg = Str(TextEtagOnly) =>
         /\ outcome.kind = "returned"
         /\ EtagOf(outcome.value) = Str(sAbc)
         /\ Get(outcome.value, "parameters") = EmptyObj
         /\ Get(outcome.value, "parameterGroups") = EmptyObj
         /\ Get(outcome.value, "conditions") = Arr(<<>>)

\* Text that is no JSON was refused synchronously.
FromJSONSynchronousWitness ==
  /\ op = "createTemplateFromJSON"
  /\ arg = Str(TextNotJson)
  /\ outcome.kind = "thrown"
  /\ clientCalls = 0

\* C8: for every successful response to listVersions the result's versions
\* is a sequence: empty when the response has no versions, otherwise one
\* constructed version per entry in the same order; nextPageToken is what
\* the response carried.
ListVersionsResult ==
  op = "listVersions" /\ response.kind = "resolved" /\ outcome.kind = "fulfilled" =>
    \A versions \in {Get(response.value, "versions")} :
      \A result \in {Get(outcome.value, "versions")} :
        /\ isArray(result)
        /\ ~Present(versions) => result = Arr(<<>>)
        /\ isArray(versions) =>
             /\ Len(result.v) = Len(versions.v)
             /\ \A i \in 1..Len(versions.v) :
                  /\ ~VersionImpl(versions.v[i]).threw
                  /\ result.v[i] = VersionImpl(versions.v[i]).value
        /\ Get(outcome.value, "nextPageToken") = Get(response.value, "nextPageToken")

\* A response with a page token and no versions gave the empty sequence
\* and the token.
ListVersionsResultWitness ==
  /\ op = "listVersions"
  /\ outcome.kind = "fulfilled"
  /\ ~Present(Get(response.value, "versions"))
  /\ Get(outcome.value, "versions") = Arr(<<>>)
  /\ Get(outcome.value, "nextPageToken") = Str(sTok)

\* C9: whatever the caller does with a constructed template (reassigning
\* parameters, parameterGroups, conditions or version, assigning etag,
\* calling toJSON), the etag accessor and the etag of toJSON() stay equal
\* to the etag given at construction.
EtagReadOnly ==
  held # Undef =>
    /\ EtagOf(held) = Get(ConstructorInput, "etag")
    /\ json # Undef => Get(json, "etag") = Get(ConstructorInput, "etag")

\* The caller serialized the template and then assigned to its etag.
EtagReadOnlyWitness ==
  /\ held # Undef
  /\ json # Undef
  /\ callerError = "TypeError"
  /\ callerSteps = MaxCallerSteps

\* C10: every facade operation calls the client exactly once and never
\* again; a failed call rejects the result with the client's own error and
\* runs no constructor; a successful call gives the constructed result or
\* an invalid-argument rejection, never a synchronous throw.
OneCallErrorsUnchanged ==
  /\ clientCalls <= 1
  /\ op \in FacadeOps =>
       /\ clientCalls = 1
       /\ outcome.kind \in {"pending", "fulfilled", "rejected"}
       /\ (pc = "pending") = (response = NoResponse)
       /\ (pc = "pending") = (outcome.kind = "pending")
       /\ response.kind = "rejected" =>
            /\ outcome.kind = "rejected"
            /\ outcome.error = response.error
            /\ ~handlerRan
            /\ held = Undef
       /\ response.kind = "resolved" =>
            /\ handlerRan
            /\ outcome = Then(Handler(op, response.value))
            /\ outcome.kind = "fulfilled" \/ InvalidArgument

\* The client failed with an etag conflict and the caller got that error.
OneCallErrorsUnchangedWitness ==
  /\ op = "publishTemplate"
  /\ response.kind = "rejected"
  /\ response.error.code = "failed-precondition"
  /\ outcome.error = response.error
  /\ clientCalls = 1

====
